---- MODULE Spec2Model ----
(***************************************************************************)
(* Workspace-reservation backend (FastAPI/app): the service layer over the *)
(* person, workspace, promotion and reservation tables.                    *)
(*                                                                         *)
(* Reading of the source.  Each service method is one atomic action (one   *)
(* inbound request).  A table is the sequence of its rows in primary-key   *)
(* order; the id of a row is its index.  Model.get(id) yields the row or   *)
(* raises DoesNotExist; Model.create appends a row; delete_instance()      *)
(* leaves None at the id of the row, which is never given out again;       *)
(* save() writes the declared columns of the instance (database.py) and    *)
(* nothing else.  Where requests are served side by side, a handler is     *)
(* split into one step per access to the store.  A                         *)
(* call written Class.method(...) runs the body of the method of that      *)
(* name with the given argument.  A foreign-key column only accepts a      *)
(* reference to a stored row: any other value makes the insert fail.       *)
(* Prices and discounts are exact numbers; times are whole days counted    *)
(* from a Monday.                                                          *)
(***************************************************************************)
EXTENDS Integers, Sequences, FiniteSets, TLC

VARIABLES
    persons,        \* table person; a deleted row leaves None at its id
    workspaces,     \* table workspace; likewise
    promotions,     \* table promotion; likewise
    reservations,   \* table reservation
    schedules,      \* table schedule; a deleted row leaves None at its id
    response,       \* what the last request returned or raised
    instance,       \* the reservation instance the last request loaded and
                    \* saved, with every attribute set on it; None otherwise
    pending         \* per worker, the request it is in the middle of serving
                    \* (its position and its local variables); None when idle

vars == <<persons, workspaces, promotions, reservations, schedules, response,
          instance, pending>>

tables == <<persons, workspaces, promotions, reservations, schedules>>

---------------------------------------------------------------------------
(* Bounds of the exploration *)

MaxPersons == 2

MaxWorkspaces == 1

MaxPromotions == 1

MaxReservations == 1

MaxTime == 1

MaxWorkers == 2

---------------------------------------------------------------------------
(* Enumerations and values *)

ADMIN == "Admin"

USER == "User"

ACTIVE == "Active"

CANCELLED == "Cancelled"

AVAILABLE == "Available"

FINISHED == "Finished"

None == [tag |-> "None"]

\* the workers that serve requests side by side
Workers == 1..MaxWorkers

DaysPerWeek == 7

Times == 0..MaxTime

\* datetime.weekday(): 0 is Monday; time 0 is a Monday
weekday(t) == t % DaysPerWeek

Roles == {ADMIN, USER}

\* a password is described by what the validators look at
GoodPassword == [length |-> 8, digit |-> TRUE, alpha |-> TRUE, special |-> TRUE]

Passwords == {GoodPassword}

\* an email is described by its text, whether it holds an '@', and its domain
Emails ==
    { [text |-> "a@x.com", at |-> TRUE, domain |-> "x.com"],
      [text |-> "b@x.com", at |-> TRUE, domain |-> "x.com"] }

Names == {"n"}

UserInputs == [name : Names, email : Emails, password : Passwords, role : Roles]

Capacities == {2}

WorkspaceInputs == [type : {"Office"}, capacity : Capacities, hourlyRate : {10}]

Prices == {-100, 200}

ReservationInputs ==
    [reservedBy : 1..(MaxPersons + 1), workspace : 1..(MaxWorkspaces + 1),
     startTime : Times, endTime : Times, status : {ACTIVE, CANCELLED},
     price : Prices]

Discounts == {0, 20, 250}

DiscountTypes == {"percent", "fixed"}

MinDurations == {1}

DaySets == {{0}, {1}}

\* well-formed promotion requests, and one request per validation rule broken
PromotionInputs ==
    [description : {"promo"}, discount : Discounts \ {0}, startTime : {0},
     endTime : {MaxTime}, status : {AVAILABLE, FINISHED},
     createdBy : 1..(MaxPersons + 1),
     discountType : DiscountTypes, minDuration : MinDurations,
     applicableDays : DaySets]
    \cup
    [description : {"promo"}, discount : {0, 20}, startTime : {0, MaxTime},
     endTime : {MaxTime}, status : {AVAILABLE}, createdBy : {1},
     discountType : {"percent"}, minDuration : MinDurations,
     applicableDays : {{0}}]

\* update_reservation never reads its request body
UpdateBodies == { r \in ReservationInputs :
                    /\ r.reservedBy = 1 /\ r.workspace = 1
                    /\ r.startTime = 0 /\ r.endTime = MaxTime }

---------------------------------------------------------------------------
(* Responses *)

\* what a handler raises
HTTPException(status_code, detail) ==
    [status_code |-> status_code, detail |-> detail, promotion_details |-> None]

\* what a handler returns
Ok(detail) == [status_code |-> 200, detail |-> detail, promotion_details |-> None]

\* the response of the request served last: the handler and its result
Reply(op, result) == [op |-> op, result |-> result]

\* an exception leaves every table as it was: each raise precedes the write
Raise(op, status_code, detail) ==
    /\ response' = Reply(op, HTTPException(status_code, detail))
    /\ instance' = None
    /\ UNCHANGED tables

---------------------------------------------------------------------------
(* Lookups *)

\* the ids of the rows of a table: a deleted row leaves None at its id, and
\* no select or get finds it
Stored(table) == { id \in DOMAIN table : table[id] # None }

\* UserService.get_user: the row, or HTTPException 404
get_user(user_id) ==
    IF user_id \in Stored(persons)
    THEN [tag |-> "row", id |-> user_id, row |-> persons[user_id]]
    ELSE [tag |-> "raise", exc |-> HTTPException(404, "User not found")]

\* WorkspaceService.get_workspace: the row as a dict, or the string
\* "Workspace not found" (never None)
get_workspace(workspace_id) ==
    IF workspace_id \in Stored(workspaces)
    THEN [tag |-> "dict", id |-> workspace_id, row |-> workspaces[workspace_id]]
    ELSE [tag |-> "str", val |-> "Workspace not found"]

\* helpers.api_key_auth.admin_required
admin_required(user_id) ==
    /\ user_id \in Stored(persons)
    /\ persons[user_id].role = ADMIN

---------------------------------------------------------------------------
(* Users *)

get_password_hash(password) == [hash |-> password]

\* create_user storing the role the request carries
create_user_request_role(user) ==
    /\ UNCHANGED pending
    /\ IF user.password.length < 8
       THEN Raise("create_user", 400, "Password must be at least 8 characters")
       ELSE IF ~user.password.digit
       THEN Raise("create_user", 400, "Password must contain at least one number")
       ELSE IF ~user.password.alpha
       THEN Raise("create_user", 400, "Password must contain at least one letter")
       ELSE IF ~user.password.special
       THEN Raise("create_user", 400, "Password must contain a special character")
       ELSE IF \E i \in Stored(persons) : persons[i].email = user.email.text
       THEN Raise("create_user", 400, "User already exists")
       ELSE IF ~user.email.at \/ user.email.domain = ""
       THEN Raise("create_user", 400, "Email must contain an '@' and a domain (e.g., '@gmail.com')")
       ELSE /\ persons' = Append(persons,
                    [name |-> user.name, email |-> user.email.text,
                     password |-> get_password_hash(user.password),
                     role |-> user.role])
            /\ response' = Reply("create_user", Ok("created_user"))
            /\ instance' = None
            /\ UNCHANGED <<workspaces, promotions, reservations, schedules>>

\* UserService.create_user: the role stored is USER, not the role of the request
create_user(user) ==
    /\ UNCHANGED pending
    /\ IF user.password.length < 8
       THEN Raise("create_user", 400, "Password must be at least 8 characters")
       ELSE IF ~user.password.digit
       THEN Raise("create_user", 400, "Password must contain at least one number")
       ELSE IF ~user.password.alpha
       THEN Raise("create_user", 400, "Password must contain at least one letter")
       ELSE IF ~user.password.special
       THEN Raise("create_user", 400, "Password must contain a special character")
       ELSE IF \E i \in Stored(persons) : persons[i].email = user.email.text
       THEN Raise("create_user", 400, "User already exists")
       ELSE IF ~user.email.at \/ user.email.domain = ""
       THEN Raise("create_user", 400, "Email must contain an '@' and a domain (e.g., '@gmail.com')")
       ELSE /\ persons' = Append(persons,
                    [name |-> user.name, email |-> user.email.text,
                     password |-> get_password_hash(user.password),
                     role |-> USER])
            /\ response' = Reply("create_user", Ok("created_user"))
            /\ instance' = None
            /\ UNCHANGED <<workspaces, promotions, reservations, schedules>>

\* create_user served by a worker in two steps, each with one access to the
\* store: lines 99-121 validate the request and scan the persons for its
\* email,
create_user_scan(worker, user) ==
    /\ pending[worker] = None
    /\ IF user.password.length < 8
       THEN Raise("create_user", 400, "Password must be at least 8 characters") /\ UNCHANGED pending
       ELSE IF ~user.password.digit
       THEN Raise("create_user", 400, "Password must contain at least one number") /\ UNCHANGED pending
       ELSE IF ~user.password.alpha
       THEN Raise("create_user", 400, "Password must contain at least one letter") /\ UNCHANGED pending
       ELSE IF ~user.password.special
       THEN Raise("create_user", 400, "Password must contain a special character") /\ UNCHANGED pending
       ELSE IF \E i \in Stored(persons) : persons[i].email = user.email.text
       THEN Raise("create_user", 400, "User already exists") /\ UNCHANGED pending
       ELSE IF ~user.email.at \/ user.email.domain = ""
       THEN Raise("create_user", 400, "Email must contain an '@' and a domain (e.g., '@gmail.com')") /\ UNCHANGED pending
       ELSE /\ pending' = [pending EXCEPT ![worker] = [pc |-> "create_user", user |-> user]]
            /\ instance' = None
            /\ UNCHANGED <<tables, response>>

\* and lines 123-129 insert the row; the email column carries no unique
\* index (database.py:68), so the store accepts any email
create_user_create(worker) ==
    /\ pending[worker] # None
    /\ pending[worker].pc = "create_user"
    /\ LET user == pending[worker].user
       IN  persons' = Append(persons,
                [name |-> user.name, email |-> user.email.text,
                 password |-> get_password_hash(user.password),
                 role |-> USER])
    /\ response' = Reply("create_user", Ok("created_user"))
    /\ instance' = None
    /\ pending' = [pending EXCEPT ![worker] = None]
    /\ UNCHANGED <<workspaces, promotions, reservations, schedules>>

\* update_user without the scan for a duplicate email
update_user_unscanned(user_id, user) ==
    /\ UNCHANGED pending
    /\ IF user_id \notin Stored(persons)
       THEN Raise("update_user", 404, "User not found")
       ELSE IF user.password.length < 8
       THEN Raise("update_user", 400, "Password must be at least 8 characters")
       ELSE IF ~user.password.digit
       THEN Raise("update_user", 400, "Password must contain at least one number")
       ELSE IF ~user.password.alpha
       THEN Raise("update_user", 400, "Password must contain at least one letter")
       ELSE IF ~user.password.special
       THEN Raise("update_user", 400, "Password must contain a special character")
       ELSE IF ~user.email.at \/ user.email.domain = ""
       THEN Raise("update_user", 400, "Email must contain an '@' and a domain (e.g., '@gmail.com')")
       ELSE LET existing_user == CHOOSE i \in Stored(persons) :
                                        \A j \in Stored(persons) : j <= i IN
            /\ persons' = [persons EXCEPT ![existing_user] =
                    [name |-> user.name, email |-> user.email.text,
                     password |-> get_password_hash(user.password),
                     role |-> user.role]]
            /\ response' = Reply("update_user", Ok("existing_user"))
            /\ instance' = None
            /\ UNCHANGED <<workspaces, promotions, reservations, schedules>>

\* the scan for a duplicate email rebinds existing_user, so after the scan
\* existing_user is the last row the select yields
update_user(user_id, user) ==
    /\ UNCHANGED pending
    /\ IF user_id \notin Stored(persons)
       THEN Raise("update_user", 404, "User not found")
       ELSE IF user.password.length < 8
       THEN Raise("update_user", 400, "Password must be at least 8 characters")
       ELSE IF ~user.password.digit
       THEN Raise("update_user", 400, "Password must contain at least one number")
       ELSE IF ~user.password.alpha
       THEN Raise("update_user", 400, "Password must contain at least one letter")
       ELSE IF ~user.password.special
       THEN Raise("update_user", 400, "Password must contain a special character")
       ELSE IF ~user.email.at \/ user.email.domain = ""
       THEN Raise("update_user", 400, "Email must contain an '@' and a domain (e.g., '@gmail.com')")
       ELSE IF \E i \in Stored(persons) : persons[i].email = user.email.text
       THEN Raise("update_user", 400, "User already exists")
       ELSE LET existing_user == CHOOSE i \in Stored(persons) :
                                        \A j \in Stored(persons) : j <= i IN
            /\ persons' = [persons EXCEPT ![existing_user] =
                    [name |-> user.name, email |-> user.email.text,
                     password |-> get_password_hash(user.password),
                     role |-> user.role]]
            /\ response' = Reply("update_user", Ok("existing_user"))
            /\ instance' = None
            /\ UNCHANGED <<workspaces, promotions, reservations, schedules>>

\* UserService.delete_user: delete_instance() removes the row; a person that
\* a workspace, a reservation or a promotion refers to cannot be removed
\* (foreign keys), and that store error is not handled
delete_user(user_id) ==
    /\ UNCHANGED pending
    /\ IF user_id \notin Stored(persons)
       THEN Raise("delete_user", 404, "User not found")
       ELSE IF \/ \E i \in Stored(workspaces) : workspaces[i].created_by = user_id
               \/ \E i \in DOMAIN reservations : reservations[i].reservedBy = user_id
               \/ \E i \in Stored(promotions) : promotions[i].createdBy = user_id
       THEN Raise("delete_user", 500, "Internal Server Error")
       ELSE /\ persons' = [persons EXCEPT ![user_id] = None]
            /\ response' = Reply("delete_user", Ok("User deleted successfully"))
            /\ instance' = None
            /\ UNCHANGED <<workspaces, promotions, reservations, schedules>>

---------------------------------------------------------------------------
(* Workspaces *)

\* route create_workspace (admin_required) and WorkspaceService.create_workspace
create_workspace(workspace, created_by) ==
    /\ UNCHANGED pending
    /\ IF ~admin_required(created_by)
       THEN Raise("create_workspace", 403, "Admin access required.")
       ELSE /\ workspaces' = Append(workspaces,
                    [type |-> workspace.type, capacity |-> workspace.capacity,
                     hourlyRate |-> workspace.hourlyRate,
                     created_by |-> created_by])
            /\ response' = Reply("create_workspace", Ok("new_workspace"))
            /\ instance' = None
            /\ UNCHANGED <<persons, promotions, reservations, schedules>>

---------------------------------------------------------------------------
(* Promotions *)

\* discountType, minDuration and applicableDays are the attributes the
\* reservation service reads from a promotion row; no handler computes them,
\* so a row carries whichever values the request names
create_promotion(promotion_data) ==
    /\ UNCHANGED pending
    /\ IF promotion_data.discount <= 0
       THEN Raise("create_promotion", 400, "Discount must be greater than zero.")
       ELSE IF promotion_data.startTime >= promotion_data.endTime
       THEN Raise("create_promotion", 400, "Start time must be before end time.")
       ELSE IF get_user(promotion_data.createdBy).tag = "raise"
       THEN Raise("create_promotion", 404, "User not found")
       ELSE IF get_user(promotion_data.createdBy).row.role # ADMIN
       THEN Raise("create_promotion", 403, "Only administrators can create promotions.")
       ELSE IF promotion_data.description = ""
       THEN Raise("create_promotion", 400, "Description cannot be empty.")
       ELSE /\ promotions' = Append(promotions,
                    [description |-> promotion_data.description,
                     discount |-> promotion_data.discount,
                     startTime |-> promotion_data.startTime,
                     endTime |-> promotion_data.endTime,
                     status |-> promotion_data.status,
                     createdBy |-> promotion_data.createdBy,
                     discountType |-> promotion_data.discountType,
                     minDuration |-> promotion_data.minDuration,
                     applicableDays |-> promotion_data.applicableDays])
            /\ response' = Reply("create_promotion", Ok("new_promotion"))
            /\ instance' = None
            /\ UNCHANGED <<persons, workspaces, reservations, schedules>>

\* route update_promotion: promotion.dict(), the fields of the Promotion body
\* under their own names
dict(promotion) ==
    [description |-> promotion.description, discount |-> promotion.discount,
     startTime |-> promotion.startTime, endTime |-> promotion.endTime,
     status |-> promotion.status, reservation |-> None,
     createdBy |-> promotion.createdBy]

\* PromotionService.update_promotion: a discount of 0 is falsy and skips the
\* discount check; the dates are compared only under the keys start_time and
\* end_time; the UPDATE writes the columns the dict names (reservation stays
\* unset), its created_By column is a foreign key to person, and the row is
\* read back afterwards (404 when no row has the id)
update_promotion(promotion_id, promotion_data) ==
    /\ UNCHANGED pending
    /\ IF /\ "discount" \in DOMAIN promotion_data
          /\ promotion_data["discount"] # 0
          /\ promotion_data["discount"] <= 0
       THEN Raise("update_promotion", 400, "Discount must be greater than zero.")
       ELSE IF /\ "start_time" \in DOMAIN promotion_data
               /\ "end_time" \in DOMAIN promotion_data
               /\ promotion_data["start_time"] >= promotion_data["end_time"]
       THEN Raise("update_promotion", 400, "Start time must be before end time.")
       ELSE IF promotion_id \notin Stored(promotions)
       THEN Raise("update_promotion", 404, "Promotion not found")
       ELSE IF promotion_data.createdBy \notin Stored(persons)
       THEN Raise("update_promotion", 400, "Error updating promotion")
       ELSE /\ promotions' = [promotions EXCEPT ![promotion_id] =
                    [@ EXCEPT !.description = promotion_data.description,
                              !.discount = promotion_data.discount,
                              !.startTime = promotion_data.startTime,
                              !.endTime = promotion_data.endTime,
                              !.status = promotion_data.status,
                              !.createdBy = promotion_data.createdBy]]
            /\ response' = Reply("update_promotion", Ok("updated_promotion"))
            /\ instance' = None
            /\ UNCHANGED <<persons, workspaces, reservations, schedules>>

\* PromotionService.delete_promotion: delete_instance() removes the row
delete_promotion(promotion_id) ==
    /\ UNCHANGED pending
    /\ IF promotion_id \notin Stored(promotions)
       THEN Raise("delete_promotion", 404, "Promotion not found")
       ELSE /\ promotions' = [promotions EXCEPT ![promotion_id] = None]
            /\ response' = Reply("delete_promotion", Ok("Promotion deleted successfully"))
            /\ instance' = None
            /\ UNCHANGED <<persons, workspaces, reservations, schedules>>

---------------------------------------------------------------------------
(* Reservations *)

ReservationColumns ==
    {"reservedBy", "workspace", "startTime", "endTime", "status", "price"}

\* ReservationModel.create / save(): the declared columns of the instance
ReservationRow(obj) == [c \in ReservationColumns |-> obj[c]]

\* ReservationModel.create(reservedBy=user, workspace=workspace, ...): the
\* workspace column is a foreign key; a value that names no workspace row is
\* rejected by the store (IntegrityError -> 400, or an unhandled store error)
ReservationModel_create(op, user, workspace, startTime, endTime, price, details) ==
    IF workspace.tag # "dict"
    THEN \E exc \in { HTTPException(400, "Reservation already exists"),
                      HTTPException(500, "Internal Server Error") } :
            /\ response' = Reply(op, exc)
            /\ instance' = None
            /\ UNCHANGED tables
    ELSE /\ reservations' = Append(reservations,
                ReservationRow([reservedBy |-> user.id, workspace |-> workspace.id,
                                startTime |-> startTime, endTime |-> endTime,
                                status |-> ACTIVE, price |-> price]))
         /\ response' = Reply(op, [status_code |-> 200, detail |-> "reservation",
                                     promotion_details |-> details])
         /\ instance' = None
         /\ UNCHANGED <<persons, workspaces, promotions, schedules>>

\* the row inserted before the price is checked
create_reservation_insert_first(reservation, user, workspace) ==
    IF user.row.role # USER
    THEN Raise("create_reservation", 400, "Only users can reserve workspaces")
    ELSE IF reservation.startTime > reservation.endTime
    THEN Raise("create_reservation", 400, "Start time must be before end time")
    ELSE IF reservation.status # ACTIVE
    THEN Raise("create_reservation", 400, "Reservation status must be active")
    ELSE IF reservation.price < 0 /\ workspace.tag = "dict"
    THEN /\ reservations' = Append(reservations,
                ReservationRow([reservedBy |-> user.id, workspace |-> workspace.id,
                                startTime |-> reservation.startTime,
                                endTime |-> reservation.endTime,
                                status |-> ACTIVE, price |-> reservation.price]))
         /\ response' = Reply("create_reservation",
                              HTTPException(400, "Reservation price must be positive"))
         /\ instance' = None
         /\ UNCHANGED <<persons, workspaces, promotions, schedules>>
    ELSE ReservationModel_create("create_reservation", user, workspace, reservation.startTime,
                                 reservation.endTime, reservation.price, None)

\* the checks of create_reservation with one more: a request whose window
\* overlaps an ACTIVE reservation of the same workspace is refused
create_reservation_no_overlap(reservation, user, workspace) ==
    IF user.row.role # USER
    THEN Raise("create_reservation", 400, "Only users can reserve workspaces")
    ELSE IF reservation.startTime > reservation.endTime
    THEN Raise("create_reservation", 400, "Start time must be before end time")
    ELSE IF reservation.status # ACTIVE
    THEN Raise("create_reservation", 400, "Reservation status must be active")
    ELSE IF reservation.price < 0
    THEN Raise("create_reservation", 400, "Reservation price must be positive")
    ELSE IF \E i \in DOMAIN reservations :
                /\ reservations[i].status = ACTIVE
                /\ reservations[i].workspace = reservation.workspace
                /\ reservations[i].startTime < reservation.endTime
                /\ reservation.startTime < reservations[i].endTime
    THEN Raise("create_reservation", 400, "Workspace already reserved")
    ELSE ReservationModel_create("create_reservation", user, workspace, reservation.startTime,
                                 reservation.endTime, reservation.price, None)

\* lines 116-142 of create_reservation, on the user and the workspace that
\* lines 114-115 read
create_reservation_checks(reservation, user, workspace) ==
    IF user = None
    THEN Raise("create_reservation", 400, "Only need valid user ")
    ELSE IF workspace = None
    THEN Raise("create_reservation", 400, "Only need valid workspace")
    ELSE IF user.row.role # USER
    THEN Raise("create_reservation", 400, "Only users can reserve workspaces")
    ELSE IF reservation.startTime > reservation.endTime
    THEN Raise("create_reservation", 400, "Start time must be before end time")
    ELSE IF reservation.status # ACTIVE
    THEN Raise("create_reservation", 400, "Reservation status must be active")
    ELSE IF reservation.price < 0
    THEN Raise("create_reservation", 400, "Reservation price must be positive")
    ELSE ReservationModel_create("create_reservation", user, workspace, reservation.startTime,
                                 reservation.endTime, reservation.price, None)

\* one request served without another request in between
create_reservation(reservation) ==
    /\ UNCHANGED pending
    /\ LET user == get_user(reservation.reservedBy)
           workspace == get_workspace(reservation.workspace)
       IN  IF user.tag = "raise"
           THEN response' = Reply("create_reservation", user.exc) /\ instance' = None /\ UNCHANGED tables
           ELSE create_reservation_checks(reservation, user, workspace)

\* create_reservation served by a worker in three steps, each with one access
\* to the store: line 114 reads the user,
create_reservation_get_user(worker, reservation) ==
    /\ pending[worker] = None
    /\ LET user == get_user(reservation.reservedBy)
       IN  IF user.tag = "raise"
           THEN /\ response' = Reply("create_reservation", user.exc)
                /\ UNCHANGED pending
           ELSE /\ pending' = [pending EXCEPT ![worker] =
                        [pc |-> "get_workspace", reservation |-> reservation,
                         user |-> user, workspace |-> None]]
                /\ UNCHANGED response
    /\ instance' = None
    /\ UNCHANGED tables

\* line 115 reads the workspace,
create_reservation_get_workspace(worker) ==
    /\ pending[worker] # None
    /\ pending[worker].pc = "get_workspace"
    /\ pending' = [pending EXCEPT ![worker] =
            [@ EXCEPT !.pc = "create",
                      !.workspace = get_workspace(pending[worker].reservation.workspace)]]
    /\ instance' = None
    /\ UNCHANGED <<tables, response>>

\* and lines 116-142 check what was read and insert the row
create_reservation_create(worker) ==
    /\ pending[worker] # None
    /\ pending[worker].pc = "create"
    /\ create_reservation_checks(pending[worker].reservation, pending[worker].user,
                                 pending[worker].workspace)
    /\ pending' = [pending EXCEPT ![worker] = None]

\* the first row whose window contains the reservation, whatever its status
first_promotion_any_status(reservation) ==
    LET matching == { i \in Stored(promotions) :
                        /\ promotions[i].startTime <= reservation.startTime
                        /\ promotions[i].endTime >= reservation.endTime }
    IN  IF matching = {}
        THEN None
        ELSE [tag |-> "row",
              row |-> promotions[CHOOSE i \in matching : \A j \in matching : i <= j]]

\* Promotion.select().where(status == AVAILABLE, startTime <= r.startTime,
\* endTime >= r.endTime).first(): the first matching row in table order
first_promotion(reservation) ==
    LET matching == { i \in Stored(promotions) :
                        /\ promotions[i].status = AVAILABLE
                        /\ promotions[i].startTime <= reservation.startTime
                        /\ promotions[i].endTime >= reservation.endTime }
    IN  IF matching = {}
        THEN None
        ELSE [tag |-> "row",
              row |-> promotions[CHOOSE i \in matching : \A j \in matching : i <= j]]

Percent == 100

\* the discount subtracted as a flat amount whatever its type
discounted_flat(price, promotion) == price - promotion.discount

\* reservation.price -= price * (discount / 100) if percent else discount
discounted(price, promotion) ==
    IF promotion.discountType = "percent"
    THEN price - ((price * promotion.discount) \div Percent)
    ELSE price - promotion.discount

\* the price left as computed
clamped_off(price) == price

\* "Evitar precios negativos"
clamped(price) == IF price < 0 THEN 0 ELSE price

promotion_details(promotion) ==
    [description |-> promotion.description, discount |-> promotion.discount,
     discount_type |-> promotion.discountType]

\* the promotion block of create_reservation_with_promotion: the outcome is
\* the price to persist and the details to return, or the raise
evaluate_promotion(reservation, apply_promotion) ==
    LET promotion == first_promotion(reservation)
        unchanged == [tag |-> "price", price |-> reservation.price, details |-> None]
    IN  IF ~apply_promotion THEN unchanged
        ELSE IF promotion = None THEN unchanged
        ELSE IF reservation.endTime - reservation.startTime >= promotion.row.minDuration
        THEN IF weekday(reservation.startTime) \in promotion.row.applicableDays
             THEN [tag |-> "price",
                   price |-> clamped(discounted(reservation.price, promotion.row)),
                   details |-> promotion_details(promotion.row)]
             ELSE unchanged
        ELSE [tag |-> "raise",
              exc |-> HTTPException(400, "Reservation does not meet promotion conditions")]

create_reservation_with_promotion(reservation, apply_promotion) ==
    /\ UNCHANGED pending
    /\ LET user == get_user(reservation.reservedBy)
           workspace == get_workspace(reservation.workspace)
           outcome == evaluate_promotion(reservation, apply_promotion)
       IN  IF user.tag = "raise"
           THEN response' = Reply("create_reservation_with_promotion", user.exc) /\ instance' = None /\ UNCHANGED tables
           ELSE IF user = None
           THEN Raise("create_reservation_with_promotion", 400, "Only need valid user")
           ELSE IF workspace = None
           THEN Raise("create_reservation_with_promotion", 400, "Only need valid workspace")
           ELSE IF user.row.role # USER
           THEN Raise("create_reservation_with_promotion", 400, "Only users can reserve workspaces")
           ELSE IF reservation.startTime > reservation.endTime
           THEN Raise("create_reservation_with_promotion", 400, "Start time must be before end time")
           ELSE IF reservation.status # ACTIVE
           THEN Raise("create_reservation_with_promotion", 400, "Reservation status must be active")
           ELSE IF reservation.price < 0
           THEN Raise("create_reservation_with_promotion", 400, "Reservation price must be positive")
           ELSE IF outcome.tag = "raise"
           THEN response' = Reply("create_reservation_with_promotion", outcome.exc) /\ instance' = None /\ UNCHANGED tables
           ELSE ReservationModel_create("create_reservation_with_promotion", user, workspace, reservation.startTime,
                                        reservation.endTime, outcome.price,
                                        outcome.details)

get_reservation(reservation_id) ==
    /\ UNCHANGED pending
    /\ IF reservation_id \notin DOMAIN reservations
       THEN Raise("get_reservation", 404, "User not found")
       ELSE response' = Reply("get_reservation", Ok("reservation")) /\ instance' = None /\ UNCHANGED tables

\* list(ReservationModel.select().where(...)): the ids of the matching rows
\* of the reservation table, in id order
select(matching) ==
    SelectSeq([i \in 1..Len(reservations) |-> i], LAMBDA i : i \in matching)

\* the select raises no DoesNotExist: the list is returned, empty or not
get_all_reservation_user(user_id) ==
    /\ UNCHANGED pending
    /\ LET by_user == { i \in DOMAIN reservations : reservations[i].reservedBy = user_id }
       IN  response' = Reply("get_all_reservation_user", Ok(select(by_user)))
    /\ instance' = None
    /\ UNCHANGED tables

\* every reservation listed, cancelled or not
get_all_reservation_cancel_unfiltered ==
    /\ UNCHANGED pending
    /\ response' = Reply("get_all_reservation_cancel", Ok(select(DOMAIN reservations)))
    /\ instance' = None
    /\ UNCHANGED tables

get_all_reservation_cancel ==
    /\ UNCHANGED pending
    /\ LET cancelled == { i \in DOMAIN reservations : reservations[i].status = CANCELLED }
       IN  response' = Reply("get_all_reservation_cancel", Ok(select(cancelled)))
    /\ instance' = None
    /\ UNCHANGED tables

\* update_reservation validating the status of the request body and comparing
\* no capacity, then saving the loaded row as ACTIVE
update_reservation_body_status(reservation_id, body) ==
    /\ UNCHANGED pending
    /\ IF reservation_id \notin DOMAIN reservations
       THEN Raise("update_reservation", 404, "Reservation not found")
       ELSE IF body.status # ACTIVE
       THEN Raise("update_reservation", 400, "Reservation status must be active")
       ELSE /\ reservations' = [reservations EXCEPT ![reservation_id] =
                    ReservationRow([reservations[reservation_id] EXCEPT !.status = ACTIVE])]
            /\ response' = Reply("update_reservation", Ok("reservation"))
            /\ instance' = [id |-> reservation_id,
                            attrs |-> [reservations[reservation_id] EXCEPT !.status = ACTIVE]]
            /\ UNCHANGED <<persons, workspaces, promotions, schedules>>

\* the request body is shadowed by the loaded row (line 162): every check
\* and every assignment reads the stored reservation
update_reservation(reservation_id, body) ==
    /\ UNCHANGED pending
    /\ IF reservation_id \notin DOMAIN reservations
       THEN Raise("update_reservation", 404, "Reservation not found")
       ELSE LET reservation == reservations[reservation_id]
                reservedBy == persons[reservation.reservedBy]
                workspace == workspaces[reservation.workspace]
            IN  IF reservedBy.role # USER
                THEN Raise("update_reservation", 400, "Only users can reserve workspaces")
                ELSE IF reservation.startTime > reservation.endTime
                THEN Raise("update_reservation", 400, "Start time must be before end time")
                ELSE IF reservation.status # ACTIVE
                THEN Raise("update_reservation", 400, "Reservation status must be active")
                ELSE IF reservation.price < 0
                THEN Raise("update_reservation", 400, "Reservation price must be positive")
                ELSE IF workspace.capacity < 1
                THEN Raise("update_reservation", 400, "Workspace capacity must be greater than 0")
                ELSE IF workspace.capacity <= workspace.capacity
                THEN Raise("update_reservation", 400, "Workspace capacity must be greater than reservation capacity")
                ELSE /\ reservations' = [reservations EXCEPT ![reservation_id] =
                            ReservationRow([reservation EXCEPT !.status = ACTIVE])]
                     /\ response' = Reply("update_reservation", Ok("reservation"))
                     /\ instance' = [id |-> reservation_id,
                                     attrs |-> [reservation EXCEPT !.status = ACTIVE]]
                     /\ UNCHANGED <<persons, workspaces, promotions, schedules>>

Nows == 1..2

\* delete_reservation that also sets the price of the cancelled row to zero
delete_reservation_refund(reservation_id, now) ==
    /\ UNCHANGED pending
    /\ IF reservation_id \notin DOMAIN reservations
       THEN Raise("delete_reservation", 404, "Reservation not found")
       ELSE LET reservation == [reservations[reservation_id] EXCEPT !.status = CANCELLED,
                                                                     !.price = 0]
                                   @@ ("cancelledAt" :> now)
            IN  /\ reservations' = [reservations EXCEPT ![reservation_id] =
                                        ReservationRow(reservation)]
                /\ response' = Reply("delete_reservation", Ok("Reservation deleted successfully"))
                /\ instance' = [id |-> reservation_id, attrs |-> reservation]
                /\ UNCHANGED <<persons, workspaces, promotions, schedules>>

\* delete_reservation storing a cancelled row under an id that has none
delete_reservation_upsert(reservation_id, now) ==
    /\ UNCHANGED pending
    /\ IF reservation_id \notin DOMAIN reservations
       THEN /\ reservations' = Append(reservations,
                    ReservationRow([reservedBy |-> 1, workspace |-> 1, startTime |-> now,
                                    endTime |-> now, status |-> CANCELLED, price |-> 0]))
            /\ response' = Reply("delete_reservation", HTTPException(404, "Reservation not found"))
            /\ instance' = None
            /\ UNCHANGED <<persons, workspaces, promotions, schedules>>
       ELSE LET reservation == [reservations[reservation_id] EXCEPT !.status = CANCELLED]
                                   @@ ("cancelledAt" :> now)
            IN  /\ reservations' = [reservations EXCEPT ![reservation_id] =
                                        ReservationRow(reservation)]
                /\ response' = Reply("delete_reservation", Ok("Reservation deleted successfully"))
                /\ instance' = [id |-> reservation_id, attrs |-> reservation]
                /\ UNCHANGED <<persons, workspaces, promotions, schedules>>

\* delete_reservation: status and cancelledAt are set on the loaded instance,
\* then save() writes the declared columns
delete_reservation(reservation_id, now) ==
    /\ UNCHANGED pending
    /\ IF reservation_id \notin DOMAIN reservations
       THEN Raise("delete_reservation", 404, "Reservation not found")
       ELSE LET reservation == [reservations[reservation_id] EXCEPT !.status = CANCELLED]
                                   @@ ("cancelledAt" :> now)
            IN  /\ reservations' = [reservations EXCEPT ![reservation_id] =
                                        ReservationRow(reservation)]
                /\ response' = Reply("delete_reservation", Ok("Reservation deleted successfully"))
                /\ instance' = [id |-> reservation_id, attrs |-> reservation]
                /\ UNCHANGED <<persons, workspaces, promotions, schedules>>

\* update_reservation served by a worker in two steps: line 162 loads the
\* reservation,
update_reservation_get(worker, reservation_id) ==
    /\ pending[worker] = None
    /\ IF reservation_id \notin DOMAIN reservations
       THEN Raise("update_reservation", 404, "Reservation not found") /\ UNCHANGED pending
       ELSE /\ pending' = [pending EXCEPT ![worker] =
                    [pc |-> "update_reservation", reservation_id |-> reservation_id,
                     reservation |-> reservations[reservation_id]]]
            /\ instance' = None
            /\ UNCHANGED <<tables, response>>

\* the checks of update_reservation without the comparison of the capacity
\* with itself
update_reservation_save_unguarded(worker) ==
    /\ pending[worker] # None
    /\ pending[worker].pc = "update_reservation"
    /\ pending' = [pending EXCEPT ![worker] = None]
    /\ LET reservation_id == pending[worker].reservation_id
           reservation == pending[worker].reservation
           reservedBy == persons[reservation.reservedBy]
           workspace == workspaces[reservation.workspace]
       IN  IF reservedBy.role # USER
           THEN Raise("update_reservation", 400, "Only users can reserve workspaces")
           ELSE IF reservation.startTime > reservation.endTime
           THEN Raise("update_reservation", 400, "Start time must be before end time")
           ELSE IF reservation.status # ACTIVE
           THEN Raise("update_reservation", 400, "Reservation status must be active")
           ELSE IF reservation.price < 0
           THEN Raise("update_reservation", 400, "Reservation price must be positive")
           ELSE IF workspace.capacity < 1
           THEN Raise("update_reservation", 400, "Workspace capacity must be greater than 0")
           ELSE /\ reservations' = [reservations EXCEPT ![reservation_id] =
                       ReservationRow([reservation EXCEPT !.status = ACTIVE])]
                /\ response' = Reply("update_reservation", Ok("reservation"))
                /\ instance' = [id |-> reservation_id,
                                attrs |-> [reservation EXCEPT !.status = ACTIVE]]
                /\ UNCHANGED <<persons, workspaces, promotions, schedules>>

\* and lines 163-185 check the loaded instance (its person and workspace are
\* read when first used) and save() it: every column is written from the
\* instance as it was loaded, with status ACTIVE
update_reservation_save(worker) ==
    /\ pending[worker] # None
    /\ pending[worker].pc = "update_reservation"
    /\ pending' = [pending EXCEPT ![worker] = None]
    /\ LET reservation_id == pending[worker].reservation_id
           reservation == pending[worker].reservation
           reservedBy == persons[reservation.reservedBy]
           workspace == workspaces[reservation.workspace]
       IN  IF reservedBy.role # USER
           THEN Raise("update_reservation", 400, "Only users can reserve workspaces")
           ELSE IF reservation.startTime > reservation.endTime
           THEN Raise("update_reservation", 400, "Start time must be before end time")
           ELSE IF reservation.status # ACTIVE
           THEN Raise("update_reservation", 400, "Reservation status must be active")
           ELSE IF reservation.price < 0
           THEN Raise("update_reservation", 400, "Reservation price must be positive")
           ELSE IF workspace.capacity < 1
           THEN Raise("update_reservation", 400, "Workspace capacity must be greater than 0")
           ELSE IF workspace.capacity <= workspace.capacity
           THEN Raise("update_reservation", 400, "Workspace capacity must be greater than reservation capacity")
           ELSE /\ reservations' = [reservations EXCEPT ![reservation_id] =
                       ReservationRow([reservation EXCEPT !.status = ACTIVE])]
                /\ response' = Reply("update_reservation", Ok("reservation"))
                /\ instance' = [id |-> reservation_id,
                                attrs |-> [reservation EXCEPT !.status = ACTIVE]]
                /\ UNCHANGED <<persons, workspaces, promotions, schedules>>

\* delete_reservation served by a worker in two steps: line 206 loads the
\* reservation,
delete_reservation_get(worker, reservation_id) ==
    /\ pending[worker] = None
    /\ IF reservation_id \notin DOMAIN reservations
       THEN Raise("delete_reservation", 404, "Reservation not found") /\ UNCHANGED pending
       ELSE /\ pending' = [pending EXCEPT ![worker] =
                    [pc |-> "delete_reservation", reservation_id |-> reservation_id,
                     reservation |-> reservations[reservation_id]]]
            /\ instance' = None
            /\ UNCHANGED <<tables, response>>

\* and lines 207-210 set status and cancelledAt on the loaded instance and
\* save() it
delete_reservation_save(worker, now) ==
    /\ pending[worker] # None
    /\ pending[worker].pc = "delete_reservation"
    /\ pending' = [pending EXCEPT ![worker] = None]
    /\ LET reservation_id == pending[worker].reservation_id
           reservation == [pending[worker].reservation EXCEPT !.status = CANCELLED]
                              @@ ("cancelledAt" :> now)
       IN  /\ reservations' = [reservations EXCEPT ![reservation_id] =
                                   ReservationRow(reservation)]
           /\ response' = Reply("delete_reservation", Ok("Reservation deleted successfully"))
           /\ instance' = [id |-> reservation_id, attrs |-> reservation]
           /\ UNCHANGED <<persons, workspaces, promotions, schedules>>

---------------------------------------------------------------------------
(* Schedules *)

UNAVAILABLE == "Unavailable"

\* ScheduleService.add_schedule: returns a message, raises nothing
add_schedule(workspace_id, schedule_data) ==
    /\ UNCHANGED pending
    /\ IF workspace_id \notin Stored(workspaces)
       THEN /\ response' = Reply("add_schedule", Ok("Workspace not found"))
            /\ UNCHANGED tables
       ELSE /\ schedules' = Append(schedules,
                    [opening_time |-> schedule_data.opening_time,
                     closing_time |-> schedule_data.closing_time,
                     status |-> schedule_data.status,
                     workspace |-> workspace_id])
            /\ response' = Reply("add_schedule", Ok("Schedule added successfully"))
            /\ UNCHANGED <<persons, workspaces, promotions, reservations>>
    /\ instance' = None

\* ScheduleService.delete_schedule: delete_instance() removes the row
delete_schedule(schedule_id) ==
    /\ UNCHANGED pending
    /\ IF schedule_id \notin DOMAIN schedules \/ schedules[schedule_id] = None
       THEN /\ response' = Reply("delete_schedule", Ok("Schedule not found"))
            /\ UNCHANGED tables
       ELSE /\ schedules' = [schedules EXCEPT ![schedule_id] = None]
            /\ response' = Reply("delete_schedule", Ok("Schedule deleted successfully"))
            /\ UNCHANGED <<persons, workspaces, promotions, reservations>>
    /\ instance' = None

\* route delete_workspace (admin_required) and WorkspaceService.delete_workspace:
\* the future schedules are looked up by ScheduleModel.id == workspace_id;
\* delete_instance() removes the workspace and, by ON DELETE CASCADE, its
\* schedules; a workspace that a reservation refers to cannot be removed
\* (foreign key), and that store error is not handled
delete_workspace(workspace_id, current_user, now) ==
    /\ UNCHANGED pending
    /\ instance' = None
    /\ IF ~admin_required(current_user)
       THEN /\ response' = Reply("delete_workspace", HTTPException(403, "Admin access required."))
            /\ UNCHANGED tables
       ELSE IF \E id \in DOMAIN schedules :
                /\ schedules[id] # None
                /\ id = workspace_id
                /\ schedules[id].opening_time > now
       THEN /\ response' = Reply("delete_workspace",
                    Ok("Cannot delete workspace with future schedules assigned."))
            /\ UNCHANGED tables
       ELSE IF workspace_id \notin Stored(workspaces)
       THEN /\ response' = Reply("delete_workspace", Ok("Workspace not found"))
            /\ UNCHANGED tables
       ELSE IF \E i \in DOMAIN reservations : reservations[i].workspace = workspace_id
       THEN /\ response' = Reply("delete_workspace", HTTPException(500, "Internal Server Error"))
            /\ UNCHANGED tables
       ELSE /\ workspaces' = [workspaces EXCEPT ![workspace_id] = None]
            /\ schedules' = [id \in DOMAIN schedules |->
                    IF schedules[id] # None /\ schedules[id].workspace = workspace_id
                    THEN None ELSE schedules[id]]
            /\ response' = Reply("delete_workspace", Ok("Workspace deleted successfully"))
            /\ UNCHANGED <<persons, promotions, reservations>>

---------------------------------------------------------------------------

Init ==
    /\ persons = <<>>
    /\ workspaces = <<>>
    /\ promotions = <<>>
    /\ reservations = <<>>
    /\ schedules = <<>>
    /\ response = Reply("start", Ok(""))
    /\ instance = None
    /\ pending = [worker \in Workers |-> None]

\* every request of the service layer, on tables of at most MaxPersons,
\* MaxWorkspaces, MaxPromotions and MaxReservations rows
Next ==
    \/ \E user \in UserInputs :
            create_user(user) /\ Len(persons') <= MaxPersons
    \/ \E user_id \in 1..(MaxPersons + 1), user \in UserInputs : update_user(user_id, user)
    \/ \E workspace \in WorkspaceInputs, created_by \in 1..(MaxPersons + 1) :
            create_workspace(workspace, created_by) /\ Len(workspaces') <= MaxWorkspaces
    \/ \E promotion_data \in PromotionInputs :
            create_promotion(promotion_data) /\ Len(promotions') <= MaxPromotions
    \/ \E reservation \in ReservationInputs :
            create_reservation(reservation) /\ Len(reservations') <= MaxReservations
    \/ \E reservation \in ReservationInputs, apply_promotion \in BOOLEAN :
            /\ create_reservation_with_promotion(reservation, apply_promotion)
            /\ Len(reservations') <= MaxReservations
    \/ \E reservation_id \in 1..(MaxReservations + 1) : get_reservation(reservation_id)
    \/ \E reservation_id \in 1..(MaxReservations + 1), body \in UpdateBodies :
            update_reservation(reservation_id, body)
    \/ \E reservation_id \in 1..(MaxReservations + 1), now \in Nows :
            delete_reservation(reservation_id, now)

Spec == Init /\ [][Next]_vars

---------------------------------------------------------------------------
(* The service in use: an administrator, a user and a workspace are stored *)

Administrator ==
    [name |-> "n", email |-> "b@x.com", password |-> get_password_hash(GoodPassword),
     role |-> ADMIN]

Customer ==
    [name |-> "n", email |-> "a@x.com", password |-> get_password_hash(GoodPassword),
     role |-> USER]

Office ==
    [type |-> "Office", capacity |-> 2, hourlyRate |-> 10, created_by |-> 1]

\* the state after create_user(a), update_user(1, b as Admin), create_user(a)
\* and create_workspace by person 1
InitStaffed ==
    /\ persons = <<Administrator, Customer>>
    /\ workspaces = <<Office>>
    /\ promotions = <<>>
    /\ reservations = <<>>
    /\ schedules = <<>>
    /\ response = Reply("create_workspace", Ok("new_workspace"))
    /\ instance = None
    /\ pending = [worker \in Workers |-> None]

---------------------------------------------------------------------------
(* Promotions on offer: several promotions, reservations created with them *)

MaxOffers == 2

MaxOfferTime == 2

\* promotions the administrator creates: windows [0, MaxOfferTime] and [0, 1]
OfferInputs ==
    [description : {"promo"}, discount : {20, 50}, startTime : {0},
     endTime : {1, MaxOfferTime}, status : {AVAILABLE, FINISHED}, createdBy : {1},
     discountType : {"percent"}, minDuration : {1, 2},
     applicableDays : {{0, 1}, {1}}]

\* reservations the user asks for
OfferedReservations ==
    [reservedBy : {2}, workspace : {1}, startTime : {0, 1},
     endTime : {1, MaxOfferTime}, status : {ACTIVE}, price : {200}]

NextPromotions ==
    \/ \E promotion_data \in OfferInputs :
            create_promotion(promotion_data) /\ Len(promotions') <= MaxOffers
    \/ \E reservation \in OfferedReservations :
            create_reservation(reservation) /\ Len(reservations') <= MaxReservations
    \/ \E reservation \in OfferedReservations, apply_promotion \in BOOLEAN :
            /\ create_reservation_with_promotion(reservation, apply_promotion)
            /\ Len(reservations') <= MaxReservations

SpecPromotions == InitStaffed /\ [][NextPromotions]_vars

---------------------------------------------------------------------------
(* Bookings: workers creating reservations side by side, cancels and reads *)

MaxBookings == 2

MaxBookingTime == 2

\* the requests of the workers: by the administrator or the user, for the
\* windows [0,1], [0,2], [1,1] and [1,2] of the one workspace
BookingInputs ==
    [reservedBy : {1, 2}, workspace : {1}, startTime : {0, 1},
     endTime : {1, MaxBookingTime}, status : {ACTIVE}, price : {200}]

NextBookings ==
    \/ \E worker \in Workers, reservation \in BookingInputs :
            create_reservation_get_user(worker, reservation)
    \/ \E worker \in Workers : create_reservation_get_workspace(worker)
    \/ \E worker \in Workers :
            create_reservation_create(worker) /\ Len(reservations') <= MaxBookings
    \/ \E reservation \in BookingInputs :
            create_reservation(reservation) /\ Len(reservations') <= MaxBookings
    \/ \E reservation_id \in 1..(MaxBookings + 1) : delete_reservation(reservation_id, 1)
    \/ \E reservation_id \in 1..(MaxBookings + 1) : get_reservation(reservation_id)
    \/ \E user_id \in 1..(MaxPersons + 1) : get_all_reservation_user(user_id)
    \/ get_all_reservation_cancel

SpecBookings == InitStaffed /\ [][NextBookings]_vars

---------------------------------------------------------------------------
(* Catalog: schedules and persons changing around the reservations *)

MaxSchedules == 2

ScheduleInputs ==
    [opening_time : {0}, closing_time : {1, MaxBookingTime},
     status : {AVAILABLE, UNAVAILABLE}]

\* update requests: a new email, or one that is taken, with either role
CatalogUsers ==
    [name : Names,
     email : Emails \cup {[text |-> "c@x.com", at |-> TRUE, domain |-> "x.com"]},
     password : Passwords, role : Roles]

NextCatalog ==
    \/ \E workspace_id \in 1..(MaxWorkspaces + 1), schedule_data \in ScheduleInputs :
            add_schedule(workspace_id, schedule_data) /\ Len(schedules') <= MaxSchedules
    \/ \E schedule_id \in 1..(MaxSchedules + 1) : delete_schedule(schedule_id)
    \/ \E reservation \in BookingInputs :
            create_reservation(reservation) /\ Len(reservations') <= MaxReservations
    \/ \E user_id \in 1..(MaxPersons + 1), user \in CatalogUsers : update_user(user_id, user)

SpecCatalog == InitStaffed /\ [][NextCatalog]_vars

---------------------------------------------------------------------------
(* Campaigns: promotions created, updated through the route, and deleted *)

MaxCampaigns == 2

\* creation requests: by the administrator, the user or nobody stored; with
\* a positive, a zero or a negative discount; with the window [0,1] or [1,1]
CampaignInputs ==
    [description : {"promo"}, discount : {-10, 0, 20}, startTime : {0, 1},
     endTime : {1}, status : {AVAILABLE}, createdBy : 1..(MaxPersons + 1),
     discountType : {"percent"}, minDuration : MinDurations,
     applicableDays : {{0}}]

\* the Promotion bodies of the update requests
CampaignBodies ==
    [description : {"promo"}, discount : {-10, 0, 30}, startTime : {0, 1},
     endTime : {1}, status : {AVAILABLE, FINISHED},
     createdBy : 1..(MaxPersons + 1)]

NextCampaigns ==
    \/ \E promotion_data \in CampaignInputs :
            create_promotion(promotion_data) /\ Len(promotions') <= MaxCampaigns
    \/ \E promotion_id \in 1..(MaxCampaigns + 1), promotion \in CampaignBodies :
            update_promotion(promotion_id, dict(promotion))
    \/ \E promotion_id \in 1..(MaxCampaigns + 1) : delete_promotion(promotion_id)

SpecCampaigns == InitStaffed /\ [][NextCampaigns]_vars

---------------------------------------------------------------------------
(* Accounts: persons signed up, updated and deleted, one request at a time *)

MaxAccounts == 3

NextAccounts ==
    \/ \E user \in CatalogUsers :
            create_user(user) /\ Len(persons') <= MaxAccounts
    \/ \E user_id \in 1..(MaxAccounts + 1), user \in CatalogUsers :
            update_user(user_id, user)
    \/ \E user_id \in 1..(MaxAccounts + 1) : delete_user(user_id)
    \/ \E workspace \in WorkspaceInputs, created_by \in 1..(MaxAccounts + 1) :
            create_workspace(workspace, created_by) /\ Len(workspaces') <= MaxWorkspaces

SpecAccounts == Init /\ [][NextAccounts]_vars

---------------------------------------------------------------------------
(* Signups: workers serving create_user requests side by side *)

NextSignups ==
    \/ \E worker \in Workers, user \in CatalogUsers : create_user_scan(worker, user)
    \/ \E worker \in Workers :
            create_user_create(worker) /\ Len(persons') <= MaxAccounts
    \/ \E user_id \in 1..(MaxAccounts + 1) : delete_user(user_id)

SpecSignups == Init /\ [][NextSignups]_vars

---------------------------------------------------------------------------
(* Offices: workspaces with schedules, deleted by the administrator *)

MaxOffices == 2

MaxOfficeTime == 3

\* schedules that open at 0, before every now, or at MaxOfficeTime, after it
OfficeSchedules ==
    [opening_time : {0, MaxOfficeTime}, closing_time : {MaxOfficeTime},
     status : {AVAILABLE}]

NextOffices ==
    \/ \E workspace \in WorkspaceInputs :
            create_workspace(workspace, 1) /\ Len(workspaces') <= MaxOffices
    \/ \E workspace_id \in 1..(MaxOffices + 1), schedule_data \in OfficeSchedules :
            add_schedule(workspace_id, schedule_data) /\ Len(schedules') <= MaxSchedules
    \/ \E schedule_id \in 1..(MaxSchedules + 1) : delete_schedule(schedule_id)
    \/ \E workspace_id \in 1..(MaxOffices + 1), current_user \in 1..MaxPersons, now \in Nows :
            delete_workspace(workspace_id, current_user, now)

SpecOffices == InitStaffed /\ [][NextOffices]_vars

---------------------------------------------------------------------------
(* Races: workers updating and cancelling reservations side by side *)

NextRaces ==
    \/ \E reservation \in BookingInputs :
            create_reservation(reservation) /\ Len(reservations') <= MaxBookings
    \/ \E worker \in Workers, reservation_id \in 1..(MaxBookings + 1) :
            update_reservation_get(worker, reservation_id)
    \/ \E worker \in Workers : update_reservation_save(worker)
    \/ \E worker \in Workers, reservation_id \in 1..(MaxBookings + 1) :
            delete_reservation_get(worker, reservation_id)
    \/ \E worker \in Workers : delete_reservation_save(worker, 1)

SpecRaces == InitStaffed /\ [][NextRaces]_vars

---------------------------------------------------------------------------
(* Ledger: reservations kept while they are cancelled and updated and while *)
(* promotions come and go                                                   *)

\* reservations the user asks for: the windows [0,1] and [0,MaxBookingTime]
LedgerReservations ==
    [reservedBy : {2}, workspace : {1}, startTime : {0},
     endTime : {1, MaxBookingTime}, status : {ACTIVE}, price : {200}]

NextLedger ==
    \/ \E reservation \in LedgerReservations, apply_promotion \in BOOLEAN :
            /\ create_reservation_with_promotion(reservation, apply_promotion)
            /\ Len(reservations') <= MaxBookings
    \/ \E reservation_id \in 1..(MaxBookings + 1), now \in Nows :
            delete_reservation(reservation_id, now)
    \/ \E reservation_id \in 1..(MaxBookings + 1), body \in UpdateBodies :
            update_reservation(reservation_id, body)
    \/ \E promotion_data \in CampaignInputs :
            create_promotion(promotion_data) /\ Len(promotions') <= MaxPromotions
    \/ \E promotion_id \in 1..(MaxPromotions + 1), promotion \in CampaignBodies :
            update_promotion(promotion_id, dict(promotion))
    \/ \E promotion_id \in 1..(MaxPromotions + 1) : delete_promotion(promotion_id)

SpecLedger == InitStaffed /\ [][NextLedger]_vars

---------------------------------------------------------------------------
(* Error kinds of the reservation handlers *)

InvalidUser ==
    { HTTPException(400, "Only need valid user "),
      HTTPException(400, "Only need valid user"),
      HTTPException(400, "Only users can reserve workspaces") }

InvalidWorkspace == HTTPException(400, "Only need valid workspace")

InvalidTimeRange == HTTPException(400, "Start time must be before end time")

InvalidStatus == HTTPException(400, "Reservation status must be active")

InvalidPrice == HTTPException(400, "Reservation price must be positive")

PromotionConditionsNotMet ==
    HTTPException(400, "Reservation does not meet promotion conditions")

\* the step serves a create request carrying reservation
CreateRequest(reservation) ==
    \/ create_reservation(reservation)
    \/ \E apply_promotion \in BOOLEAN :
            create_reservation_with_promotion(reservation, apply_promotion)

IsUser(user_id) == user_id \in Stored(persons) /\ persons[user_id].role = USER

Persisted == Len(reservations') > Len(reservations)

Last(table) == table[Len(table)]

---------------------------------------------------------------------------
(* Claims *)

\* C1: a create request (plain or with promotion) by a USER for a stored
\* workspace whose startTime is not strictly before its endTime - equal times
\* included - fails with InvalidTimeRange and persists nothing, so every
\* stored reservation has startTime < endTime.
C1_InvalidTimeRange ==
    /\ \A r \in ReservationInputs :
          ( /\ IsUser(r.reservedBy)
            /\ r.workspace \in Stored(workspaces)
            /\ ~(r.startTime < r.endTime) ) =>
              ~ENABLED ( /\ CreateRequest(r)
                         /\ ~( /\ response'.result = InvalidTimeRange
                               /\ reservations' = reservations ) )
    /\ \A i \in DOMAIN reservations :
          reservations[i].startTime < reservations[i].endTime

\* C2: every reservation a create request persists is ACTIVE and has a price
\* >= 0 when it is persisted, whatever the promotions and discounts.
C2_PersistedActiveNonNegative ==
    [][ Persisted =>
            /\ Last(reservations').status = ACTIVE
            /\ Last(reservations').price >= 0 ]_vars

\* a percent discount above 100 was applied and the reservation was persisted
\* at price 0
C2_Witness ==
    /\ response.op = "create_reservation_with_promotion"
    /\ response.result.status_code = 200
    /\ response.result.promotion_details # None
    /\ response.result.promotion_details.discount_type = "percent"
    /\ response.result.promotion_details.discount > Percent
    /\ Last(reservations).status = ACTIVE
    /\ Last(reservations).price = 0

\* C3: cancel(id) on a stored reservation leaves it stored with status
\* CANCELLED and a non-null cancelledAt, on the first call and on a repeated one.
C3_CancelStoresCancelledAt ==
    [][ response'.op = "delete_reservation" =>
            \A id \in DOMAIN reservations, now \in Nows :
                delete_reservation(id, now) =>
                    /\ reservations'[id].status = CANCELLED
                    /\ "cancelledAt" \in DOMAIN reservations'[id] ]_vars

\* C4: CANCELLED is terminal: no request removes a stored reservation, and
\* the only change of status a stored reservation makes is ACTIVE -> CANCELLED.
C4_CancelledTerminal ==
    [][ \A i \in DOMAIN reservations :
            /\ i \in DOMAIN reservations'
            /\ reservations'[i].status # reservations[i].status =>
                    /\ reservations[i].status = ACTIVE
                    /\ reservations'[i].status = CANCELLED ]_vars

\* update_reservation was called on a cancelled reservation, which stayed
\* cancelled
C4_Witness ==
    /\ response.op = "update_reservation"
    /\ response.result = InvalidStatus
    /\ \E i \in DOMAIN reservations : reservations[i].status = CANCELLED

\* the cancelledAt of reservation i, as a sequence of at most one value: the
\* stored one if the row has it, else the one on the instance just saved
cancelledAt(i) ==
    IF "cancelledAt" \in DOMAIN reservations[i]
    THEN <<reservations[i].cancelledAt>>
    ELSE IF instance # None /\ instance.id = i /\ "cancelledAt" \in DOMAIN instance.attrs
    THEN <<instance.attrs.cancelledAt>>
    ELSE <<>>

\* C5: cancelledAt is assigned at most once per reservation: it is null while
\* the reservation is ACTIVE, and once non-null no later request - a repeated
\* cancel included - changes or clears it.
C5_CancelledAtSetOnce ==
    [][ \A i \in DOMAIN reservations :
            /\ reservations[i].status = ACTIVE => cancelledAt(i) = <<>>
            /\ cancelledAt(i) # <<>> => cancelledAt(i)' = cancelledAt(i) ]_vars

\* the error the ordered rules of the validator name for a request, as the
\* set of responses that carry it; {} when no rule is violated
C6_Expected(r) ==
    IF ~IsUser(r.reservedBy) THEN InvalidUser
    ELSE IF r.workspace \notin Stored(workspaces) THEN {InvalidWorkspace}
    ELSE IF ~(r.startTime < r.endTime) THEN {InvalidTimeRange}
    ELSE IF r.status # ACTIVE THEN {InvalidStatus}
    ELSE IF r.price < 0 THEN {InvalidPrice}
    ELSE {}

\* C6: a create request that violates several rules is answered with the
\* error of the earliest violated rule in the order user, workspace, time
\* range, status, price.
C6_EarliestRule ==
    \A r \in ReservationInputs :
        C6_Expected(r) # {} =>
            ~ENABLED ( /\ CreateRequest(r)
                       /\ response'.result \notin C6_Expected(r) )

\* C7: a create request whose reservedBy is not stored, or is stored with a
\* role other than USER, fails with InvalidUser and persists nothing.
C7_InvalidUser ==
    \A r \in ReservationInputs :
        ~IsUser(r.reservedBy) =>
            ~ENABLED ( /\ CreateRequest(r)
                       /\ ~( /\ response'.result \in InvalidUser
                             /\ reservations' = reservations ) )

\* C8: a create request by a USER whose workspace id is not stored fails with
\* InvalidWorkspace and persists nothing.
C8_InvalidWorkspace ==
    \A r \in ReservationInputs :
        (IsUser(r.reservedBy) /\ r.workspace \notin Stored(workspaces)) =>
            ~ENABLED ( /\ CreateRequest(r)
                       /\ ~( /\ response'.result = InvalidWorkspace
                             /\ reservations' = reservations ) )

\* the request passes the five rules of the validator
Valid(r) ==
    /\ IsUser(r.reservedBy)
    /\ r.workspace \in Stored(workspaces)
    /\ r.startTime < r.endTime
    /\ r.status = ACTIVE
    /\ r.price >= 0

\* the promotion the evaluator selects for r meets its two conditions
ConditionsMet(r) ==
    /\ r.endTime - r.startTime >= first_promotion(r).row.minDuration
    /\ weekday(r.startTime) \in first_promotion(r).row.applicableDays

\* C9: with the flag set and a promotion selected, a valid request that fails
\* the minimum duration or the weekday condition fails with
\* PromotionConditionsNotMet and persists nothing.
C9_ConditionsNotMet ==
    \A r \in ReservationInputs :
        (Valid(r) /\ first_promotion(r) # None /\ ~ConditionsMet(r)) =>
            ~ENABLED ( /\ create_reservation_with_promotion(r, TRUE)
                       /\ ~( /\ response'.result = PromotionConditionsNotMet
                             /\ reservations' = reservations ) )

\* max(0, price - price*discount/100) for percent, max(0, price - discount)
\* for fixed
C10_Price(price, discount, discountType) ==
    LET reduced == IF discountType = "percent"
                   THEN price - ((price * discount) \div 100)
                   ELSE price - discount
    IN  IF reduced > 0 THEN reduced ELSE 0

Covering(r) ==
    { i \in Stored(promotions) :
        /\ promotions[i].status = AVAILABLE
        /\ promotions[i].startTime <= r.startTime
        /\ promotions[i].endTime >= r.endTime }

\* C11: a valid request with the promotion flag false, or with no AVAILABLE
\* promotion whose window contains the reservation window, is persisted at
\* exactly the submitted price and returns no promotion details; so is every
\* valid request to the plain create.
C11_PriceAsSubmitted ==
    \A r \in OfferedReservations :
        Valid(r) =>
            /\ \A apply_promotion \in BOOLEAN :
                  (~apply_promotion \/ Covering(r) = {}) =>
                      ~ENABLED ( /\ create_reservation_with_promotion(r, apply_promotion)
                                 /\ ~( /\ Persisted
                                       /\ Last(reservations').price = r.price
                                       /\ response'.result.promotion_details = None ) )
            /\ ~ENABLED ( /\ create_reservation(r)
                          /\ ~( /\ Persisted
                                /\ Last(reservations').price = r.price
                                /\ response'.result.promotion_details = None ) )

\* a reservation was persisted at the submitted price with no details while a
\* FINISHED promotion contained its window and an AVAILABLE one overlapped it
\* without containing it
C11_Witness ==
    /\ response.op = "create_reservation_with_promotion"
    /\ response.result.status_code = 200
    /\ response.result.promotion_details = None
    /\ Len(reservations) > 0
    /\ Last(reservations).price = 200
    /\ \E i \in Stored(promotions) :
            /\ promotions[i].status = FINISHED
            /\ promotions[i].startTime <= Last(reservations).startTime
            /\ promotions[i].endTime >= Last(reservations).endTime
    /\ \E i \in Stored(promotions) :
            /\ promotions[i].status = AVAILABLE
            /\ promotions[i].startTime <= Last(reservations).startTime
            /\ promotions[i].endTime > Last(reservations).startTime
            /\ promotions[i].endTime < Last(reservations).endTime

\* C12: only the first AVAILABLE promotion, in store order, whose window
\* contains the reservation window is evaluated: when its conditions hold its
\* discount is applied, and when they do not the request fails with
\* PromotionConditionsNotMet, whatever the later promotions are.
C12_FirstMatch ==
    \A r \in OfferedReservations :
        (Valid(r) /\ Covering(r) # {}) =>
            LET first == promotions[CHOOSE i \in Covering(r) : \A j \in Covering(r) : i <= j]
            IN  ~ENABLED ( /\ create_reservation_with_promotion(r, TRUE)
                           /\ ~( IF /\ r.endTime - r.startTime >= first.minDuration
                                    /\ weekday(r.startTime) \in first.applicableDays
                                 THEN /\ Persisted
                                      /\ Last(reservations').price =
                                            C10_Price(r.price, first.discount, first.discountType)
                                      /\ response'.result.promotion_details.discount = first.discount
                                 ELSE /\ response'.result = PromotionConditionsNotMet
                                      /\ reservations' = reservations ) )

\* C13: a create request (plain or with promotion) that ends in an error
\* leaves the stored reservations, persons, workspaces, promotions and
\* schedules exactly as they were.
C13_ErrorLeavesStore ==
    [][ ( /\ response'.op \in {"create_reservation", "create_reservation_with_promotion"}
          /\ response'.result.status_code # 200 ) =>
            UNCHANGED tables ]_vars

\* a create request failed on its price with persons and a workspace stored
C13_Witness ==
    /\ response.op = "create_reservation"
    /\ response.result = InvalidPrice
    /\ persons # <<>>
    /\ workspaces # <<>>

\* C14: get, update and cancel called with an id that names no stored
\* reservation each fail with a 404 NotFound and leave the store unchanged.
C14_NotFound ==
    \A id \in 1..(MaxReservations + 1) :
        id \notin DOMAIN reservations =>
            ~ENABLED ( /\ \/ get_reservation(id)
                          \/ \E body \in UpdateBodies : update_reservation(id, body)
                          \/ \E now \in Nows : delete_reservation(id, now)
                       /\ ~( /\ response'.result.status_code = 404
                             /\ UNCHANGED tables ) )

\* cancel was called with an id that names no reservation while another
\* reservation was stored
C14_Witness ==
    /\ response.op = "delete_reservation"
    /\ response.result.status_code = 404
    /\ Len(reservations) = 1

\* C18: update_reservation on a stored ACTIVE reservation held by a USER, with
\* startTime <= endTime, price >= 0 and workspace capacity >= 1, completes
\* successfully and leaves every stored reservation as it was, whatever the
\* request body.
C18_NoOpSave ==
    \A id \in DOMAIN reservations, body \in UpdateBodies :
        ( /\ reservations[id].status = ACTIVE
          /\ persons[reservations[id].reservedBy].role = USER
          /\ reservations[id].startTime <= reservations[id].endTime
          /\ reservations[id].price >= 0
          /\ workspaces[reservations[id].workspace].capacity >= 1 ) =>
            ~ENABLED ( /\ update_reservation(id, body)
                       /\ ~( /\ response'.result.status_code = 200
                             /\ reservations' = reservations ) )

\* the stored ACTIVE reservations of the same workspace whose window overlaps
\* the window of r
Overlapping(r) ==
    { i \in DOMAIN reservations :
        /\ reservations[i].status = ACTIVE
        /\ reservations[i].workspace = r.workspace
        /\ reservations[i].startTime < r.endTime
        /\ r.startTime < reservations[i].endTime }

\* C15: a create request by a USER with a valid window whose window overlaps
\* an ACTIVE reservation of the same workspace is persisted all the same,
\* served in one piece or in steps interleaved with the steps of another
\* request.
C15_NoDoubleBookingPrevention ==
    /\ \A r \in BookingInputs :
          (Valid(r) /\ Overlapping(r) # {}) =>
              ~ENABLED (create_reservation(r) /\ ~Persisted)
    /\ \A worker \in Workers :
          ( /\ pending[worker] # None
            /\ pending[worker].pc = "create"
            /\ Valid(pending[worker].reservation)
            /\ Overlapping(pending[worker].reservation) # {} ) =>
              ~ENABLED (create_reservation_create(worker) /\ ~Persisted)

\* two ACTIVE reservations with overlapping windows are stored for one
\* workspace
C15_Witness ==
    \E i, j \in DOMAIN reservations :
        /\ i < j
        /\ reservations[j].status = ACTIVE
        /\ i \in Overlapping(reservations[j])

\* C19: get_all_reservation_user answers 404 when no reservation is stored
\* for the user, and returns the list when at least one is.
C19_EmptyListIs404 ==
    \A user_id \in 1..(MaxPersons + 1) :
        LET stored == { i \in DOMAIN reservations : reservations[i].reservedBy = user_id }
        IN  ~ENABLED ( /\ get_all_reservation_user(user_id)
                       /\ ~( IF stored = {}
                             THEN response'.result.status_code = 404
                             ELSE /\ response'.result.status_code = 200
                                  /\ response'.result.detail # <<>> ) )

\* the ids a list response carries
Listed(result) == { result.detail[k] : k \in DOMAIN result.detail }

Cancelled == { i \in DOMAIN reservations : reservations[i].status = CANCELLED }

C16_WithinAvailableSchedule ==
    \A i \in DOMAIN reservations :
        \E k \in DOMAIN schedules :
            /\ schedules[k] # None
            /\ schedules[k].workspace = reservations[i].workspace
            /\ schedules[k].status = AVAILABLE
            /\ schedules[k].opening_time <= reservations[i].startTime
            /\ reservations[i].endTime <= schedules[k].closing_time

\* C17: the reservedBy of every stored reservation is a stored person whose
\* role is USER.
C17_ReservedByUser ==
    \A i \in DOMAIN reservations :
        /\ reservations[i].reservedBy \in Stored(persons)
        /\ persons[reservations[i].reservedBy].role = USER

\* C21: every stored promotion has a discount above zero, and an update of a
\* stored promotion carrying a discount of zero or below is answered 400 and
\* changes no table.
C21_DiscountPositive ==
    /\ \A i \in Stored(promotions) : promotions[i].discount > 0
    /\ \A promotion_id \in Stored(promotions), promotion \in CampaignBodies :
          promotion.discount <= 0 =>
            ~ENABLED ( /\ update_promotion(promotion_id, dict(promotion))
                       /\ ~( /\ response'.result.status_code = 400
                             /\ UNCHANGED tables ) )

\* C22: the creator of every stored promotion is a stored person whose role
\* is ADMIN, and a create_promotion request that is well-formed except for a
\* createdBy naming no person, or a person who is no ADMIN, is answered 403
\* and changes no table.
C22_CreatedByAdmin ==
    /\ \A i \in Stored(promotions) : admin_required(promotions[i].createdBy)
    /\ \A promotion_data \in CampaignInputs :
          ( /\ promotion_data.discount > 0
            /\ promotion_data.startTime < promotion_data.endTime
            /\ ~admin_required(promotion_data.createdBy) ) =>
            ~ENABLED ( /\ create_promotion(promotion_data)
                       /\ ~( /\ response'.result.status_code = 403
                             /\ UNCHANGED tables ) )

\* C26: every stored promotion starts before it ends, whatever promotions
\* are created and updated through the promotion route.
C26_StartsBeforeEnd ==
    \A i \in Stored(promotions) : promotions[i].startTime < promotions[i].endTime

\* uniqueness violations of the person table
Conflict == HTTPException(400, "User already exists")

\* C23: no two stored persons share an email, and a create_user, or an
\* update_user of a stored person, carrying an email that another stored
\* person holds is answered with a Conflict and changes no table.
C23_EmailUnique ==
    /\ \A i, j \in Stored(persons) : persons[i].email = persons[j].email => i = j
    /\ \A user \in CatalogUsers :
          (\E i \in Stored(persons) : persons[i].email = user.email.text) =>
            ~ENABLED ( /\ create_user(user)
                       /\ ~(response'.result = Conflict /\ UNCHANGED tables) )
    /\ \A user_id \in Stored(persons), user \in CatalogUsers :
          (\E i \in Stored(persons) \ {user_id} : persons[i].email = user.email.text) =>
            ~ENABLED ( /\ update_user(user_id, user)
                       /\ ~(response'.result = Conflict /\ UNCHANGED tables) )

\* a create_user was refused as a Conflict while two persons are stored and
\* a third has been deleted
C23_Witness ==
    /\ response = Reply("create_user", Conflict)
    /\ Cardinality(Stored(persons)) = 2
    /\ Len(persons) = 3

\* C24: an update_user that succeeds stores the name, email, password and
\* role of the request in the person whose id is user_id, and leaves every
\* other person as it was.
C24_UpdatesThatPerson ==
    \A user_id \in Stored(persons), user \in CatalogUsers :
        ~ENABLED ( /\ update_user(user_id, user)
                   /\ response'.result.status_code = 200
                   /\ persons' # [persons EXCEPT ![user_id] =
                            [name |-> user.name, email |-> user.email.text,
                             password |-> get_password_hash(user.password),
                             role |-> user.role]] )

\* C30: a create_user that succeeds appends a person with role USER whatever
\* role the request carries, and a person comes to hold role ADMIN only in a
\* step that is a successful update_user.
C30_SignupIsUser ==
    /\ [](\A user \in CatalogUsers :
            ~ENABLED ( /\ create_user(user)
                       /\ response'.result.status_code = 200
                       /\ persons' # Append(persons,
                                [name |-> user.name, email |-> user.email.text,
                                 password |-> get_password_hash(user.password),
                                 role |-> USER]) ))
    /\ [][ \A i \in Stored(persons') :
              ( /\ persons'[i].role = ADMIN
                /\ ~(i \in Stored(persons) /\ persons[i].role = ADMIN) ) =>
                    response' = Reply("update_user", Ok("existing_user")) ]_vars

\* a person signed up, stored with role USER, while an ADMIN is stored
C30_Witness ==
    /\ response = Reply("create_user", Ok("created_user"))
    /\ persons[Len(persons)] # None
    /\ persons[Len(persons)].role = USER
    /\ \E i \in Stored(persons) : persons[i].role = ADMIN

\* C29: with create_user requests served side by side, scan and insert
\* interleaved, the stored persons still carry pairwise different emails.
C29_EmailUniqueConcurrent ==
    \A i \in Stored(persons) :
        \A j \in Stored(persons) \ {i} : persons[i].email # persons[j].email

\* the schedules of workspace w that open after now
FutureSchedules(w, now) ==
    { k \in DOMAIN schedules :
        /\ schedules[k] # None
        /\ schedules[k].workspace = w
        /\ schedules[k].opening_time > now }

\* C25: asked by the administrator to delete a stored workspace w that no
\* reservation refers to, delete_workspace refuses and leaves w stored while
\* a schedule of w opens after now, and otherwise removes w with all its
\* schedules, whatever schedules other workspaces have.
C25_FutureSchedulesBlock ==
    \A w \in Stored(workspaces), now \in Nows :
        IF FutureSchedules(w, now) # {}
        THEN ~ENABLED ( /\ delete_workspace(w, 1, now)
                        /\ ~( /\ UNCHANGED tables
                              /\ response'.result.detail =
                                    "Cannot delete workspace with future schedules assigned." ) )
        ELSE ~ENABLED ( /\ delete_workspace(w, 1, now)
                        /\ ~( /\ w \notin Stored(workspaces')
                              /\ \A k \in DOMAIN schedules' :
                                    schedules'[k] # None => schedules'[k].workspace # w ) )

\* C27: with the steps of update_reservation and of the cancel interleaved
\* in any order, the step that completes a cancel leaves its reservation
\* stored as CANCELLED, and no step changes the status of a reservation
\* stored as CANCELLED.
C27_NoResurrection ==
    [][ /\ \A worker \in Workers :
              ( /\ pending[worker] # None
                /\ pending[worker].pc = "delete_reservation"
                /\ pending'[worker] = None ) =>
                    reservations'[pending[worker].reservation_id].status = CANCELLED
        /\ \A id \in DOMAIN reservations :
              reservations[id].status = CANCELLED => reservations'[id].status = CANCELLED
      ]_vars

\* an update_reservation that loaded the one reservation as ACTIVE, passing
\* its status check, has finished, and the reservation is stored as CANCELLED:
\* the cancel completed between the load and the end of the update
C27_Witness ==
    /\ Len(reservations) = 1
    /\ reservations[1].status = CANCELLED
    /\ response = Reply("update_reservation",
            HTTPException(400, "Workspace capacity must be greater than reservation capacity"))

\* the five attributes of a reservation that are set when it is created
Fixed(row) ==
    [c \in {"price", "startTime", "endTime", "reservedBy", "workspace"} |-> row[c]]

====
